---- MODULE Spec2Model ----
(***************************************************************************)
(* Flood-risk fusion and alerting engine (flood_preprototype).             *)
(*                                                                         *)
(* models/predictor.py : _parse_iso, load_eo_features, compute_alert_level,*)
(*                       compute_flood_risk                                *)
(*                       log_event                                         *)
(* scripts/eo_features.py : save_eo_features                               *)
(* scripts/generate_mock_data.py : save_sensor_data                        *)
(* scripts/Data_computation.py : the EO pipeline's append to the store     *)
(*                                                                         *)
(* Python floats are modelled as exact rationals <<n, d>> in lowest terms  *)
(* with d > 0; Python None is the empty tuple.                             *)
(***************************************************************************)
EXTENDS Integers, Sequences, FiniteSets, TLC

VARIABLES
    thresholds,   \* the configuration mapping handed to the scorer
    eo_csv,       \* data/sentinel1/eo_features.csv: [exists, lines]
    sensor_csv,   \* data/sensor/simulated.csv: [exists, lines]
    events,       \* logs/events.csv: [exists, lines]
    loaded,       \* the load_eo_features call in progress / just returned
    scored,       \* the compute_flood_risk call in progress / just returned
    alerts,       \* compute_alert_level calls made by the current caller
    logged,       \* the log_event call in progress / just returned
    calibration   \* the calibrate_thresholds call in progress / just returned

vars ==
    <<thresholds, eo_csv, sensor_csv, events, loaded, scored, alerts, logged,
      calibration>>

----------------------------------------------------------------------------
(* Values *)

None == <<>>

\* a key that the thresholds mapping does not hold
Missing == <<"key", "not", "present">>

\* a value that is not a number, such as the string "abc"
Malformed == <<"abc">>

Abs(x) == IF x < 0 THEN -x ELSE x

RECURSIVE GCD(_, _)
GCD(a, b) == IF b = 0 THEN a ELSE GCD(b, a % b)

\* the rational n/d in lowest terms with a positive denominator (d # 0)
Rat(n, d) ==
    LET s == IF d < 0 THEN -1 ELSE 1
        g == GCD(Abs(n), Abs(d))
    IN  <<(s * n) \div g, (s * d) \div g>>

RInt(i) == <<i, 1>>
RAdd(a, b) == Rat(a[1] * b[2] + b[1] * a[2], a[2] * b[2])
RMul(a, b) == Rat(a[1] * b[1], a[2] * b[2])
RDiv(a, b) == Rat(a[1] * b[2], a[2] * b[1])
RLeq(a, b) == a[1] * b[2] <= b[1] * a[2]
RLt(a, b) == a[1] * b[2] < b[1] * a[2]
RGeq(a, b) == RLeq(b, a)
IsZero(a) == a[1] = 0

\* Python min(a, b) / max(a, b): the first argument wins a tie
PyMin(a, b) == IF RLt(b, a) THEN b ELSE a
PyMax(a, b) == IF RLt(a, b) THEN b ELSE a

\* int(x) on a float: truncation toward zero
PyInt(a) == IF a[1] >= 0 THEN a[1] \div a[2] ELSE -((-a[1]) \div a[2])

\* slip: a tie goes up, floor(x + 0.5)
PyRoundHalfUp(a) == (2 * a[1] + a[2]) \div (2 * a[2])

\* round(x) on a float: nearest integer, a tie goes to the even neighbour
PyRound(a) ==
    LET fl == a[1] \div a[2]
        twice == 2 * (a[1] - fl * a[2])
    IN  IF twice < a[2] THEN fl
        ELSE IF twice > a[2] THEN fl + 1
        ELSE IF fl % 2 = 0 THEN fl ELSE fl + 1

----------------------------------------------------------------------------
(* Timestamps.  An ISO-8601 string is modelled by its form, the wall-clock *)
(* reading it spells (seconds) and the UTC offset it spells (seconds).     *)

\* forms: "None" (no value), "empty" (""), "bad" (does not parse),
\*        "naive" (no offset), "Z" (trailing Z), "offset" (explicit +hh:mm)
TS(form, clock, off) == [form |-> form, clock |-> clock, off |-> off]

NoTimestamp == TS("None", 0, 0)
BadTimestamp == TS("bad", 0, 0)

\* a string that does not parse, written with a blank after it: for the form
\* "bad" the off field says whether the text is followed by a blank
Padded(ts) == [ts EXCEPT !.off = 1]

\* str.strip() of a timestamp string
strip(ts) == IF ts.form = "bad" THEN [ts EXCEPT !.off = 0] ELSE ts

\* Python truthiness of a timestamp argument: None and "" are falsy
Truthy(ts) == ts.form \notin {"None", "empty"}

\* the UTC instant <<seconds>> the string denotes, or None
_parse_iso(iso_str) ==
    CASE iso_str.form = "None"   -> None
      [] iso_str.form = "Z"      -> <<iso_str.clock>>
      [] iso_str.form = "naive"  -> <<iso_str.clock>>
      [] iso_str.form = "offset" -> <<iso_str.clock - iso_str.off>>
      [] OTHER                   -> None

\* datetime.isoformat() of an aware UTC datetime: "...+00:00"
isoformat(dt) == TS("offset", dt[1], 0)

----------------------------------------------------------------------------
(* The EO feature store: a CSV file of lines; the first line written to an *)
(* empty file is the header.                                               *)

HeaderLine ==
    [kind |-> "header", timestamp |-> NoTimestamp, soil_saturation |-> None,
     flood_extent |-> None, wetness_trend |-> None]

NoFile == [exists |-> FALSE, lines |-> <<>>]

\* a file that exists and holds nothing
EmptyFile == [exists |-> TRUE, lines |-> <<>>]

\* round(x, 3)
Round3(a) == Rat(PyRound(RMul(a, RInt(1000))), 1000)

\* slip: the header is written by every call
save_eo_features_always_header(data, f, now) ==
    [exists |-> TRUE,
     lines |-> f.lines \o
               <<HeaderLine,
                 [kind |-> "row",
                  timestamp |-> IF Truthy(data.timestamp) THEN data.timestamp
                                ELSE isoformat(now),
                  soil_saturation |-> Round3(data.soil_saturation),
                  flood_extent |-> Round3(data.flood_extent),
                  wetness_trend |-> RInt(PyInt(data.wetness_trend))]>>]

\* save_eo_features(data, file_path) at wall-clock instant now
save_eo_features(data, f, now) ==
    LET write_header == ~f.exists \/ f.lines = <<>>
        row == [kind |-> "row",
                timestamp |-> IF Truthy(data.timestamp) THEN data.timestamp
                              ELSE isoformat(now),
                soil_saturation |-> Round3(data.soil_saturation),
                flood_extent |-> Round3(data.flood_extent),
                wetness_trend |-> RInt(PyInt(data.wetness_trend))]
    IN  [exists |-> TRUE,
         lines |-> (IF write_header THEN f.lines \o <<HeaderLine>> ELSE f.lines)
                   \o <<row>>]

\* the EO pipeline's df.to_csv(csv_path, mode='a', header=not exists): NaN is
\* written as an empty cell, the header only when the file does not exist
to_csv(features, f) ==
    [exists |-> TRUE,
     lines |-> (IF ~f.exists THEN f.lines \o <<HeaderLine>> ELSE f.lines)
               \o <<[kind |-> "row", timestamp |-> features.timestamp,
                     soil_saturation |-> features.soil_saturation,
                     flood_extent |-> features.flood_extent,
                     wetness_trend |-> features.wetness_trend]>>]

\* list(csv.DictReader(f)): the lines after the first
DictReader(f) == IF f.lines = <<>> THEN <<>> ELSE Tail(f.lines)

\* r.get(field) for line r of the reader: the first line of the file names
\* the columns, and a data line in its place names none of them
Cell(f, r, field) ==
    IF f.lines[1].kind = "header" THEN r[field]
    ELSE IF field = "timestamp" THEN NoTimestamp ELSE None

_try_float(x) == IF x = None THEN None ELSE Rat(x[1], x[2])
_try_int(x) == IF x = None THEN None ELSE RInt(PyInt(x))

\* the rows list load_eo_features builds from the reader
ParsedRows(f) ==
    LET reader == DictReader(f)
    IN  [i \in 1..Len(reader) |->
            [timestamp |-> _parse_iso(Cell(f, reader[i], "timestamp")),
             soil_saturation |-> _try_float(Cell(f, reader[i], "soil_saturation")),
             flood_extent |-> _try_float(Cell(f, reader[i], "flood_extent")),
             wetness_trend |-> _try_int(Cell(f, reader[i], "wetness_trend"))]]

----------------------------------------------------------------------------
(* Python slices and the stable sort of list.sort(key=...) *)

\* s[start:]
SliceFrom(s, start) ==
    LET n == Len(s)
        lo == IF start < 0 THEN (IF n + start < 0 THEN 0 ELSE n + start)
              ELSE (IF start > n THEN n ELSE start)
    IN  SubSeq(s, lo + 1, n)

\* s[:stop]
SliceTo(s, stop) ==
    LET n == Len(s)
        hi == IF stop < 0 THEN (IF n + stop < 0 THEN 0 ELSE n + stop)
              ELSE (IF stop > n THEN n ELSE stop)
    IN  SubSeq(s, 1, hi)

\* insert pair x = <<delta, row>> behind every pair whose delta is <= x's
RECURSIVE InsertByDelta(_, _)
InsertByDelta(x, s) ==
    IF s = <<>> THEN <<x>>
    ELSE IF Head(s)[1] <= x[1] THEN <<Head(s)>> \o InsertByDelta(x, Tail(s))
    ELSE <<x>> \o s

\* slip: the list is never sorted
Unsorted(s) == s

\* pairs.sort(key=lambda x: x[0]): ascending delta, ties keep list order
RECURSIVE SortByDelta(_)
SortByDelta(s) ==
    IF s = <<>> THEN <<>>
    ELSE InsertByDelta(s[Len(s)], SortByDelta(SubSeq(s, 1, Len(s) - 1)))

----------------------------------------------------------------------------
(* load_eo_features *)

\* slip: "no EO signal" is reported as zeros
ZeroEO ==
    [soil_saturation |-> <<0, 1>>, flood_extent |-> <<0, 1>>,
     wetness_trend |-> <<0, 1>>]

NoEO == [soil_saturation |-> None, flood_extent |-> None, wetness_trend |-> None]

\* the positions 1..n of a list of n rows, in list order
Positions(rows) == [i \in 1..Len(rows) |-> i]

\* rows if n_recent is None, else rows[-n_recent:]   (as row positions)
LastRows(rows, n_recent) ==
    IF n_recent = None THEN Positions(rows)
    ELSE SliceFrom(Positions(rows), -(n_recent[1]))

\* slip: the delta keeps its sign (abs() forgotten)
RowsWithDeltaSigned(rows, target) ==
    LET timed == SelectSeq(Positions(rows), LAMBDA i : rows[i].timestamp # None)
    IN  [k \in 1..Len(timed) |->
            <<rows[timed[k]].timestamp[1] - target[1], timed[k]>>]

\* (delta, row) for every row that has a timestamp, in list order
RowsWithDelta(rows, target) ==
    LET timed == SelectSeq(Positions(rows), LAMBDA i : rows[i].timestamp # None)
    IN  [k \in 1..Len(timed) |->
            <<Abs(rows[timed[k]].timestamp[1] - target[1]), timed[k]>>]

\* the second components of a list of pairs
Seconds(pairs) == [k \in 1..Len(pairs) |-> pairs[k][2]]

\* slip: no fallback to the nearest rows when none is within tolerance
WithinOnly(rows_with_delta, max_delta_seconds) ==
    SortByDelta(SelectSeq(rows_with_delta, LAMBDA x : x[1] <= max_delta_seconds))

\* n_recent is None: the rows within tolerance by proximity, and when there
\* are none all rows by proximity
WithinOrNearest(rows_with_delta, max_delta_seconds) ==
    LET within_with_delta ==
            SelectSeq(rows_with_delta, LAMBDA x : x[1] <= max_delta_seconds)
    IN  IF within_with_delta # <<>> THEN SortByDelta(within_with_delta)
        ELSE SortByDelta(rows_with_delta)

\* n_recent is an int: the nearest n_recent rows
NearestN(rows_with_delta, n) == SliceTo(SortByDelta(rows_with_delta), n)

\* slip: the fallback forgets the count limit
FallbackAll(rows, n_recent) == Positions(rows)

\* the target does not parse, or no row has a timestamp: rows if n_recent is
\* None, else rows[-n_recent:]
Fallback(rows, n_recent) ==
    IF n_recent = None THEN Positions(rows)
    ELSE SliceFrom(Positions(rows), -(n_recent[1]))

\* select_rows(): the positions (in rows) of the chosen rows, in chosen order
select_rows(rows, match_timestamp, n_recent, max_delta_seconds) ==
    IF ~Truthy(match_timestamp) THEN LastRows(rows, n_recent)
    ELSE
    LET target == _parse_iso(match_timestamp)
    IN  IF target = None THEN Fallback(rows, n_recent)
        ELSE
        LET rows_with_delta == RowsWithDelta(rows, target)
        IN  IF rows_with_delta = <<>> THEN Fallback(rows, n_recent)
            ELSE IF n_recent = None
                 THEN Seconds(WithinOrNearest(rows_with_delta, max_delta_seconds))
                 ELSE Seconds(NearestN(rows_with_delta, n_recent[1]))

RECURSIVE RSum(_)
RSum(vals) == IF vals = <<>> THEN RInt(0) ELSE RAdd(Head(vals), RSum(Tail(vals)))

\* slip: the divisor is one too large
MeanOffByOne(vals) == RDiv(RSum(vals), RInt(Len(vals) + 1))

\* sum(vals) / len(vals)
Mean(vals) == RDiv(RSum(vals), RInt(Len(vals)))

\* slip: a row without the field counts as 0 instead of being left out
PresentOrZero(rows, chosen, field) ==
    [k \in 1..Len(chosen) |->
        IF rows[chosen[k]][field] = None THEN RInt(0) ELSE rows[chosen[k]][field]]

\* [r[field] for r in chosen if r[field] is not None]
Present(rows, chosen, field) ==
    LET have == SelectSeq(chosen, LAMBDA i : rows[i][field] # None)
    IN  [k \in 1..Len(have) |-> rows[have[k]][field]]

\* the aggregate of the chosen rows
Aggregate(rows, chosen) ==
    IF chosen = <<>> THEN NoEO
    ELSE
    LET soil_vals == Present(rows, chosen, "soil_saturation")
        flood_vals == Present(rows, chosen, "flood_extent")
        trend_vals == Present(rows, chosen, "wetness_trend")
    IN  [soil_saturation |-> IF soil_vals # <<>> THEN Mean(soil_vals) ELSE None,
         flood_extent |-> IF flood_vals # <<>> THEN Mean(flood_vals) ELSE None,
         wetness_trend |-> IF trend_vals # <<>>
                           THEN RInt(PyRound(Mean(trend_vals))) ELSE None]

\* the rows chosen by load_eo_features on file f (positions in the parsed rows)
Chosen(f, match_timestamp, n_recent, max_delta_seconds) ==
    IF ~f.exists \/ DictReader(f) = <<>> THEN <<>>
    ELSE select_rows(ParsedRows(f), match_timestamp, n_recent, max_delta_seconds)

load_eo_features(f, match_timestamp, n_recent, max_delta_seconds) ==
    IF ~f.exists \/ DictReader(f) = <<>> THEN NoEO
    ELSE Aggregate(ParsedRows(f),
                   select_rows(ParsedRows(f), match_timestamp, n_recent,
                               max_delta_seconds))

----------------------------------------------------------------------------
(* compute_alert_level and compute_flood_risk *)

\* slip: thresholds.get(key) or default -- a configured 0 is taken for absent
GetOrDefault(th, key, default) ==
    IF th[key] = Missing THEN default
    ELSE IF th[key] = None THEN default
    ELSE IF IsZero(th[key]) THEN default
    ELSE th[key]

\* thresholds.get(key, default)
Get(th, key, default) == IF th[key] = Missing THEN default ELSE th[key]

\* slip: the yellow threshold is tested before the red one
compute_alert_level_yellow_first(flood_risk, th) ==
    LET red_th == Get(th, "alert_red", Rat(3, 4))
        yellow_th == Get(th, "alert_yellow", Rat(2, 5))
    IN  IF RGeq(flood_risk, yellow_th) THEN "YELLOW"
        ELSE IF RGeq(flood_risk, red_th) THEN "RED"
        ELSE "GREEN"

compute_alert_level(flood_risk, th) ==
    LET red_th == Get(th, "alert_red", Rat(3, 4))
        yellow_th == Get(th, "alert_yellow", Rat(2, 5))
    IN  IF RGeq(flood_risk, red_th) THEN "RED"
        ELSE IF RGeq(flood_risk, yellow_th) THEN "YELLOW"
        ELSE "GREEN"

\* min(value / limit, 1.0)
SensorScore(value, limit) == PyMin(RDiv(value, limit), RInt(1))

\* slip: the weights 0.4 and 0.3 of the first two terms are exchanged
IndexSwapped(a, b, c) ==
    RAdd(RAdd(RMul(Rat(3, 10), a), RMul(Rat(2, 5), b)), RMul(Rat(3, 10), c))

\* 0.4 * a + 0.3 * b + 0.3 * c
Index(a, b, c) ==
    RAdd(RAdd(RMul(Rat(2, 5), a), RMul(Rat(3, 10), b)), RMul(Rat(3, 10), c))

\* slip: a value that cannot be converted counts as 1.0
_safe_float_one(x) ==
    IF x = None \/ x = Malformed THEN RInt(1) ELSE Rat(x[1], x[2])

\* _safe_float(x): float(x), 0.0 when that raises
_safe_float(x) ==
    IF x = None \/ x = Malformed THEN RInt(0) ELSE Rat(x[1], x[2])

\* slip: flood_extent is not normalised by flood_index at all
FloodNormUnit(th) == RInt(1)

\* thresholds.get("flood_index", 0.75) or 1.0
FloodNorm(th) ==
    LET v == Get(th, "flood_index", Rat(3, 4))
    IN  IF v = None \/ IsZero(v) THEN RInt(1) ELSE v

\* min(max(x, 0.0), 1.0)
Clamp01(x) == PyMin(PyMax(x, RInt(0)), RInt(1))

\* {1: 1.0, 0: 0.5, -1: 0.0}.get(int(float(trend)), 0.0); 0.0 for None
TrendScore(trend) ==
    IF trend = None \/ trend = Malformed THEN RInt(0)
    ELSE LET trend_int == PyInt(trend)
         IN  CASE trend_int = 1  -> RInt(1)
               [] trend_int = 0  -> Rat(1, 2)
               [] trend_int = -1 -> RInt(0)
               [] OTHER          -> RInt(0)

\* slip: the EO index is subtracted instead of added
FuseSignSlip(sensor_index, eo_index) ==
    PyMin(RAdd(RMul(Rat(1, 2), sensor_index), RMul(Rat(-1, 2), eo_index)), RInt(1))

\* min(0.5 * sensor_index + 0.5 * eo_index, 1.0)
Fuse(sensor_index, eo_index) ==
    PyMin(RAdd(RMul(Rat(1, 2), sensor_index), RMul(Rat(1, 2), eo_index)), RInt(1))

\* the timestamp written into the returned sensor_record
FinalTimestamp(ts) ==
    IF _parse_iso(ts) # None THEN isoformat(_parse_iso(ts)) ELSE ts

\* slip: final_sensor = sensor_data, so the timestamp is written into the
\* caller's reading
sensor_data_aliased(sensor_data) ==
    [sensor_data EXCEPT !.timestamp = FinalTimestamp(sensor_data.timestamp)]

\* the caller's reading after the call: final_sensor = dict(sensor_data) is a
\* copy, and the normalised timestamp is written into the copy alone
sensor_data_after(sensor_data) == sensor_data

\* the EO features compute_flood_risk scores with when the caller passes none
DefaultEO(f, sensor_data) == load_eo_features(f, NoTimestamp, None, 60)

\* an exception handler that hands back a default result instead of raising
RaisedSwallowed(kind, sensor_data) ==
    [outcome |-> IF kind = "" THEN "" ELSE "ok",
     flood_risk |-> IF kind = "" THEN None ELSE RInt(0),
     alert_level |-> IF kind = "" THEN "" ELSE "GREEN",
     eo_features |-> NoEO, sensor_record |-> sensor_data,
     water_level_score |-> None, rainfall_score |-> None,
     humidity_score |-> None, sensor_index |-> None, soil_score |-> None,
     flood_norm |-> None, flood_score |-> None, trend_score |-> None,
     eo_index |-> None]

\* the call ends by raising the exception kind: nothing is returned
Raised(kind, sensor_data) ==
    [outcome |-> kind, flood_risk |-> None, alert_level |-> "",
     eo_features |-> NoEO, sensor_record |-> sensor_data,
     water_level_score |-> None, rainfall_score |-> None,
     humidity_score |-> None, sensor_index |-> None, soil_score |-> None,
     flood_norm |-> None, flood_score |-> None, trend_score |-> None,
     eo_index |-> None]

\* what evaluating value / limit raises, "ok" if nothing
DivisionOutcome(value, limit) ==
    IF value = Missing \/ limit = Missing THEN "KeyError"
    ELSE IF value \in {None, Malformed} \/ limit = None THEN "TypeError"
    ELSE IF IsZero(limit) THEN "ZeroDivisionError"
    ELSE "ok"

\* the first exception of the three sensor-score lines, "ok" if none
SensorOutcome(sensor_data, th) ==
    LET w == DivisionOutcome(sensor_data.water_level, th["water_level_m"])
        r == DivisionOutcome(sensor_data.rainfall, th["rainfall_mm"])
        h == DivisionOutcome(sensor_data.humidity, RInt(100))
    IN  IF w # "ok" THEN w ELSE IF r # "ok" THEN r ELSE h

\* compute_flood_risk(sensor_data, eo_features, thresholds); eo_features is
\* None or <<triple>>; f is the default EO feature file
compute_flood_risk(sensor_data, eo_features, th, f) ==
    LET eo == IF eo_features = None THEN DefaultEO(f, sensor_data)
              ELSE eo_features[1]
    IN  IF SensorOutcome(sensor_data, th) # "ok"
        THEN Raised(SensorOutcome(sensor_data, th), sensor_data)
        ELSE
        LET water_level_score ==
                SensorScore(sensor_data.water_level, th["water_level_m"])
            rainfall_score == SensorScore(sensor_data.rainfall, th["rainfall_mm"])
            humidity_score == SensorScore(sensor_data.humidity, RInt(100))
            sensor_index == Index(rainfall_score, humidity_score, water_level_score)
            soil == eo.soil_saturation
            flood == eo.flood_extent
            trend == eo.wetness_trend
            soil_score == Clamp01(_safe_float(soil))
            flood_norm == FloodNorm(th)
            flood_score == Clamp01(RDiv(_safe_float(flood), flood_norm))
            trend_score == TrendScore(trend)
            eo_index == Index(soil_score, flood_score, trend_score)
            flood_risk == Fuse(sensor_index, eo_index)
        IN  [outcome |-> "ok",
             flood_risk |-> flood_risk,
             alert_level |-> compute_alert_level(flood_risk, th),
             eo_features |-> [soil_saturation |-> soil, flood_extent |-> flood,
                              wetness_trend |-> trend],
             sensor_record |-> [sensor_data EXCEPT
                                   !.timestamp = FinalTimestamp(sensor_data.timestamp)],
             water_level_score |-> water_level_score,
             rainfall_score |-> rainfall_score,
             humidity_score |-> humidity_score,
             sensor_index |-> sensor_index,
             soil_score |-> soil_score,
             flood_norm |-> flood_norm,
             flood_score |-> flood_score,
             trend_score |-> trend_score,
             eo_index |-> eo_index]

----------------------------------------------------------------------------
(* The sensor store *)

SensorHeaderLine ==
    [kind |-> "header", timestamp |-> NoTimestamp, water_level |-> None,
     rainfall |-> None, humidity |-> None]

\* save_sensor_data(data, file_path) at wall-clock instant now
save_sensor_data(data, f, now) ==
    LET write_header == ~f.exists \/ f.lines = <<>>
        row == [kind |-> "row",
                timestamp |-> IF Truthy(data.timestamp) THEN data.timestamp
                              ELSE isoformat(now),
                water_level |-> Round3(data.water_level),
                rainfall |-> Round3(data.rainfall),
                humidity |-> Round3(data.humidity)]
    IN  [exists |-> TRUE,
         lines |-> (IF write_header THEN f.lines \o <<SensorHeaderLine>>
                    ELSE f.lines) \o <<row>>]

----------------------------------------------------------------------------
(* log_event: the merged events file *)

\* the key of a row without a timestamp: the empty string
EmptyKey == TS("empty", 0, 0)

\* the place of a string that is no timestamp in the order of str: "" comes
\* first, the strings that do not parse follow in the order of their clock
\* field, which for them stands for the text
RawRank(k) == IF k.form = "empty" THEN -1 ELSE k.clock

\* slip: the join key is the timestamp as written, not its normalised form
_read_rows_raw_key(f) ==
    IF ~f.exists THEN <<>>
    ELSE
    LET reader == DictReader(f)
    IN  [i \in 1..Len(reader) |->
            LET raw_ts == strip(Cell(f, reader[i], "timestamp"))
                parsed == IF Truthy(raw_ts) THEN _parse_iso(raw_ts) ELSE None
            IN  [raw |-> [c \in DOMAIN reader[i] \ {"kind"} |->
                              Cell(f, reader[i], c)],
                 iso_ts |-> IF ~Truthy(raw_ts) THEN EmptyKey ELSE raw_ts,
                 parsed |-> parsed,
                 index |-> i - 1]]

\* _read_rows(path): for every line of the reader its cells, its join key
\* iso_ts and its parsed instant
_read_rows(f) ==
    IF ~f.exists THEN <<>>
    ELSE
    LET reader == DictReader(f)
    IN  [i \in 1..Len(reader) |->
            LET raw_ts == strip(Cell(f, reader[i], "timestamp"))
                parsed == IF Truthy(raw_ts) THEN _parse_iso(raw_ts) ELSE None
            IN  [raw |-> [c \in DOMAIN reader[i] \ {"kind"} |->
                              Cell(f, reader[i], c)],
                 iso_ts |-> IF ~Truthy(raw_ts) THEN EmptyKey
                            ELSE IF parsed # None THEN isoformat(parsed)
                            ELSE raw_ts,
                 parsed |-> parsed,
                 index |-> i - 1]]

\* {r["iso_ts"]: r for r in rows}: of the rows sharing a key the last stays
RowMap(rows) ==
    [k \in {rows[i].iso_ts : i \in 1..Len(rows)} |->
        rows[CHOOSE i \in 1..Len(rows) :
                /\ rows[i].iso_ts = k
                /\ \A j \in (i + 1)..Len(rows) : rows[j].iso_ts # k]]

\* slip: only the keys that both sources have
KeysInBoth(sensor_map, eo_map) == DOMAIN sensor_map \cap DOMAIN eo_map

\* set(sensor_map.keys()) | set(eo_map.keys())
UnionOfKeys(sensor_map, eo_map) == DOMAIN sensor_map \cup DOMAIN eo_map

\* slip: the keys that do not parse are put in front
_key_sort_unparsed_first(k, sensor_map, eo_map) ==
    LET s == IF k \in DOMAIN sensor_map THEN sensor_map[k] ELSE eo_map[k]
        dt == s.parsed
    IN  IF dt # None THEN <<1, dt[1]>> ELSE <<0, RawRank(k)>>

\* _key_sort(k): (0, dt) for a parsed key, (1, k) for the rest
_key_sort(k, sensor_map, eo_map) ==
    LET s == IF k \in DOMAIN sensor_map THEN sensor_map[k] ELSE eo_map[k]
        dt == s.parsed
    IN  IF dt # None THEN <<0, dt[1]>> ELSE <<1, RawRank(k)>>

\* Python's < on two such tuples
TupleLess(a, b) == a[1] < b[1] \/ (a[1] = b[1] /\ a[2] < b[2])

\* sorted(keys, key=_key_sort)
RECURSIVE sorted_keys(_, _, _)
sorted_keys(keys, sensor_map, eo_map) ==
    IF keys = {} THEN <<>>
    ELSE
    LET least == CHOOSE k \in keys : \A j \in keys \ {k} :
                    TupleLess(_key_sort(k, sensor_map, eo_map),
                              _key_sort(j, sensor_map, eo_map))
    IN  <<least>> \o sorted_keys(keys \ {least}, sensor_map, eo_map)

\* float(cell) of a sensor cell; None where float() raises (a blank cell)
SensorValue(x) == IF x = None THEN None ELSE Rat(x[1], x[2])

\* the sensor_data dict of key k
sensor_data_of(k, sraw) ==
    [timestamp |-> k,
     water_level |-> SensorValue(sraw.water_level),
     rainfall |-> SensorValue(sraw.rainfall),
     humidity |-> SensorValue(sraw.humidity)]

\* _f(x): float(x), None when that raises
_f(x) == IF x = None THEN None ELSE Rat(x[1], x[2])

\* int(float(x)), None when that raises
TrendInt(x) == IF x = None THEN None ELSE RInt(PyInt(x))

\* slip: soil_saturation and flood_extent are read from each other's column
eo_data_swapped(eraw) ==
    [soil_saturation |-> _f(eraw.flood_extent),
     flood_extent |-> _f(eraw.soil_saturation),
     wetness_trend |-> TrendInt(eraw.wetness_trend)]

\* the eo_data dict of an EO row
eo_data_of(eraw) ==
    [soil_saturation |-> _f(eraw.soil_saturation),
     flood_extent |-> _f(eraw.flood_extent),
     wetness_trend |-> TrendInt(eraw.wetness_trend)]

\* the reading handed to compute_flood_risk: 0.0 for every absent field
ZeroFilled(sensor_data) ==
    [timestamp |-> sensor_data.timestamp,
     water_level |-> IF sensor_data.water_level # None
                     THEN sensor_data.water_level ELSE RInt(0),
     rainfall |-> IF sensor_data.rainfall # None
                  THEN sensor_data.rainfall ELSE RInt(0),
     humidity |-> IF sensor_data.humidity # None
                  THEN sensor_data.humidity ELSE RInt(0)]

\* the compute_flood_risk call made for key k (made only if k has a sensor row)
RowResult(k, sensor_map, eo_map, th, f) ==
    compute_flood_risk(ZeroFilled(sensor_data_of(k, sensor_map[k].raw)),
                       IF k \in DOMAIN eo_map
                       THEN <<eo_data_of(eo_map[k].raw)>> ELSE None,
                       th, f)

\* level = "" and risk = "" of a key without a sensor row
NotScored == [outcome |-> "ok", alert_level |-> "", flood_risk |-> None]

EventsHeaderLine ==
    [kind |-> "header", timestamp |-> NoTimestamp, warning_level |-> "",
     water_level |-> None, rainfall |-> None, humidity |-> None,
     soil_saturation |-> None, flood_extent |-> None, wetness_trend |-> None,
     risk |-> None]

\* the output row of key k, res being what scoring it gave; a blank cell is
\* None, a blank warning_level ""
OutRow(k, sensor_map, eo_map, res) ==
    LET has_sensor == k \in DOMAIN sensor_map
        has_eo == k \in DOMAIN eo_map
        sensor_data == sensor_data_of(k, sensor_map[k].raw)
        eo_data == eo_data_of(eo_map[k].raw)
    IN  [kind |-> "row",
         timestamp |-> k,
         warning_level |-> res.alert_level,
         water_level |-> IF has_sensor THEN sensor_data.water_level ELSE None,
         rainfall |-> IF has_sensor THEN sensor_data.rainfall ELSE None,
         humidity |-> IF has_sensor THEN sensor_data.humidity ELSE None,
         soil_saturation |-> IF has_eo THEN eo_data.soil_saturation ELSE None,
         flood_extent |-> IF has_eo THEN eo_data.flood_extent ELSE None,
         wetness_trend |-> IF has_eo THEN eo_data.wetness_trend ELSE None,
         risk |-> res.flood_risk]

\* for k in sorted_keys: ... writer.writerow(out); a compute_flood_risk call
\* that raises ends the loop, the rows before it are written
RECURSIVE WriteRows(_, _, _, _, _)
WriteRows(keys, sensor_map, eo_map, th, f) ==
    IF keys = <<>> THEN [raised |-> FALSE, lines |-> <<>>]
    ELSE
    LET k == Head(keys)
        res == IF k \in DOMAIN sensor_map
               THEN RowResult(k, sensor_map, eo_map, th, f) ELSE NotScored
    IN  IF res.outcome # "ok" THEN [raised |-> TRUE, lines |-> <<>>]
        ELSE
        LET rest == WriteRows(Tail(keys), sensor_map, eo_map, th, f)
        IN  [raised |-> rest.raised,
             lines |-> <<OutRow(k, sensor_map, eo_map, res)>> \o rest.lines]

\* slip: the destination is opened with mode "a"
open_a(previous, lines) == [exists |-> TRUE, lines |-> previous.lines \o lines]

\* log_path.open("w"): whatever the destination held is dropped
open_w(previous, lines) == [exists |-> TRUE, lines |-> lines]

\* log_event(sensor_csv=sensor_f, eo_csv=eo_f): the lines it writes, and
\* whether a compute_flood_risk call raised
log_event(sensor_f, eo_f, th) ==
    LET sensor_map == RowMap(_read_rows(sensor_f))
        eo_map == RowMap(_read_rows(eo_f))
        keys == UnionOfKeys(sensor_map, eo_map)
        rows == WriteRows(sorted_keys(keys, sensor_map, eo_map),
                          sensor_map, eo_map, th, eo_f)
    IN  [raised |-> rows.raised, lines |-> <<EventsHeaderLine>> \o rows.lines]

----------------------------------------------------------------------------
(* Bounds and input domains *)

MaxRows == 3        \* data rows the source files may grow to, together
MaxN == 2           \* largest n_recent a caller passes
MaxAlertCalls == 2  \* compute_alert_level calls one caller makes in a row

Keys == {"water_level_m", "rainfall_mm", "flood_index", "alert_red", "alert_yellow"}

\* the worked example's configuration
ExampleThresholds ==
    [water_level_m |-> RInt(80), rainfall_mm |-> RInt(30),
     flood_index |-> Rat(3, 4), alert_red |-> Rat(3, 4), alert_yellow |-> Rat(2, 5)]

ThresholdConfigs ==
    [water_level_m : {RInt(80)},
     rainfall_mm : {RInt(30)},
     flood_index : {Missing, None, RInt(0), Rat(3, 4), Rat(1, 2)},
     alert_red : {Missing, RInt(0), Rat(1, 2), Rat(3, 4)},
     alert_yellow : {Missing, RInt(0), Rat(2, 5), Rat(9, 10)}]

SensorValues ==
    [timestamp : {NoTimestamp},
     water_level : {RInt(0), RInt(60), RInt(100), RInt(-20)},
     rainfall : {RInt(0), RInt(25), RInt(45)},
     humidity : {RInt(0), RInt(90), RInt(130)}]

EOValues ==
    [soil_saturation : {None, Rat(4, 5), Rat(3, 2), Rat(-1, 2)},
     flood_extent : {None, Rat(3, 10), RInt(1), Rat(-1, 4)},
     wetness_trend : {None, RInt(-1), RInt(0), RInt(1), RInt(2)}]

\* readings with a field that is None, not a number, or not there at all
PartialSensors ==
    {[timestamp |-> NoTimestamp, water_level |-> None,
      rainfall |-> RInt(25), humidity |-> RInt(90)],
     [timestamp |-> NoTimestamp, water_level |-> RInt(60),
      rainfall |-> Missing, humidity |-> RInt(90)],
     [timestamp |-> NoTimestamp, water_level |-> RInt(60),
      rainfall |-> RInt(25), humidity |-> Malformed]}

\* EO triples with fields that are not numbers
PartialEO ==
    {[soil_saturation |-> Malformed, flood_extent |-> None,
      wetness_trend |-> Malformed],
     [soil_saturation |-> Rat(4, 5), flood_extent |-> Malformed,
      wetness_trend |-> RInt(1)]}

RiskValues ==
    {RInt(0), Rat(1, 5), Rat(2, 5), Rat(1, 2), Rat(3, 5), Rat(3, 4), Rat(9, 10), RInt(1)}

\* what callers hand to save_eo_features
EOData ==
    {[timestamp |-> TS("naive", 0, 0), soil_saturation |-> Rat(4, 5),
      flood_extent |-> Rat(3, 10), wetness_trend |-> RInt(1)],
     [timestamp |-> TS("Z", 0, 0), soil_saturation |-> Rat(3, 5),
      flood_extent |-> Rat(1, 10), wetness_trend |-> RInt(0)],
     [timestamp |-> TS("offset", 3630, 3600), soil_saturation |-> Rat(7, 10),
      flood_extent |-> Rat(1, 5), wetness_trend |-> RInt(-1)],
     [timestamp |-> TS("naive", 200, 0), soil_saturation |-> Rat(9, 10),
      flood_extent |-> Rat(2, 5), wetness_trend |-> RInt(1)],
     [timestamp |-> BadTimestamp, soil_saturation |-> Rat(3, 5),
      flood_extent |-> RInt(0), wetness_trend |-> RInt(-1)],
     [timestamp |-> NoTimestamp, soil_saturation |-> Rat(1, 3),
      flood_extent |-> Rat(6667, 10000), wetness_trend |-> Rat(3, 2)]}

\* what the EO pipeline computes for one scene: the timestamp is
\* datetime.utcnow().isoformat() (no offset), soil_saturation and flood_extent
\* are NaN (None here) when the scene or the mask is degenerate
EOScenes ==
    {[timestamp |-> TS("naive", 0, 0), soil_saturation |-> Rat(1, 4),
      flood_extent |-> None, wetness_trend |-> RInt(1)],
     [timestamp |-> TS("naive", 0, 0), soil_saturation |-> None,
      flood_extent |-> Rat(1, 5), wetness_trend |-> RInt(0)],
     [timestamp |-> TS("naive", 100, 0), soil_saturation |-> Rat(3, 4),
      flood_extent |-> None, wetness_trend |-> RInt(-1)],
     [timestamp |-> TS("naive", 200, 0), soil_saturation |-> Rat(1, 2),
      flood_extent |-> Rat(3, 10), wetness_trend |-> RInt(0)]}

\* the wall clock when save_eo_features has to stamp a row itself
NowInstants == {<<100>>}

\* match_timestamp arguments
MatchStamps ==
    {NoTimestamp, TS("empty", 0, 0), BadTimestamp, TS("naive", 0, 0),
     TS("offset", -3570, -3600), TS("naive", 130, 0)}

NRecent == {None} \cup {<<n>> : n \in -1..MaxN}

Tolerances == {0, 60}

\* sensor readings scored against the feature file
StoreSensors ==
    [timestamp : {NoTimestamp, TS("naive", 0, 0), TS("Z", 200, 0), BadTimestamp},
     water_level : {RInt(60)}, rainfall : {RInt(25)}, humidity : {RInt(90)}]

\* what callers hand to save_sensor_data
SensorData ==
    {[timestamp |-> TS("Z", 0, 0), water_level |-> RInt(60),
      rainfall |-> RInt(25), humidity |-> RInt(90)],
     [timestamp |-> TS("offset", 7400, 7200), water_level |-> RInt(100),
      rainfall |-> RInt(45), humidity |-> RInt(130)],
     [timestamp |-> TS("bad", 2, 0), water_level |-> RInt(20),
      rainfall |-> RInt(0), humidity |-> RInt(50)],
     [timestamp |-> Padded(BadTimestamp), water_level |-> Rat(400004, 10000),
      rainfall |-> RInt(10), humidity |-> RInt(70)]}

\* a sensor file as log_event may find it: a reading none of whose cells
\* is filled in
BlankReading ==
    [exists |-> TRUE,
     lines |-> <<SensorHeaderLine,
                 [kind |-> "row", timestamp |-> TS("naive", 0, 0),
                  water_level |-> None, rainfall |-> None, humidity |-> None]>>]

SensorFilesFound == {NoFile, BlankReading}

----------------------------------------------------------------------------
(* calibrator.py: calibrate_thresholds *)

\* a mapping none of whose calibration keys is present
NoSettings ==
    [base_water_level |-> Missing, flood_risk_factor |-> Missing,
     calibrated_water_level |-> Missing]

\* calibrate_thresholds that writes into the mapping it was given
calibrate_in_place(th) ==
    IF th.base_water_level = Missing \/ th.flood_risk_factor = Missing
    THEN [outcome |-> "KeyError", thresholds |-> th, calibrated |-> None]
    ELSE LET product == RMul(th.base_water_level, th.flood_risk_factor)
             written == [th EXCEPT !.calibrated_water_level = product]
         IN  [outcome |-> "ok", thresholds |-> written, calibrated |-> <<written>>]

\* calibrate_thresholds(thresholds): outcome, the mapping of the caller after
\* the call, and the mapping returned (None when the call raised)
calibrate_thresholds(th) ==
    IF th.base_water_level = Missing \/ th.flood_risk_factor = Missing
    THEN [outcome |-> "KeyError", thresholds |-> th, calibrated |-> None]
    ELSE LET product == RMul(th.base_water_level, th.flood_risk_factor)
             copy == [th EXCEPT !.calibrated_water_level = product]
         IN  [outcome |-> "ok", thresholds |-> th, calibrated |-> <<copy>>]

\* mappings callers hand to calibrate_thresholds
CalibrationInputs ==
    [base_water_level : {Missing, RInt(2), Rat(5, 2)},
     flood_risk_factor : {Missing, Rat(3, 2)},
     calibrated_water_level : {Missing, RInt(1)}]

\* configurations as a deployment may hold them: the shipped one, and ones
\* that lack a sensor normalisation limit
CallConfigs ==
    {ExampleThresholds,
     [ExampleThresholds EXCEPT !["water_level_m"] = Missing],
     [ExampleThresholds EXCEPT !["rainfall_mm"] = Missing]}

----------------------------------------------------------------------------
(* State machine *)

NoSensor ==
    [timestamp |-> NoTimestamp, water_level |-> None, rainfall |-> None,
     humidity |-> None]

IdleLoad ==
    [called |-> FALSE, match_timestamp |-> NoTimestamp, n_recent |-> None,
     max_delta_seconds |-> 0, chosen |-> <<>>, eo |-> NoEO]

IdleScore ==
    [called |-> FALSE, sensor_data |-> NoSensor, eo_features |-> None,
     sensor_data_after |-> NoSensor, result |-> Raised("", NoSensor)]

IdleLog ==
    [called |-> FALSE, raised |-> FALSE, previous |-> NoFile,
     sensor_csv |-> NoFile, eo_csv |-> NoFile]

IdleCalibration ==
    [called |-> FALSE, given |-> NoSettings, outcome |-> "",
     thresholds |-> NoSettings, calibrated |-> None]

Idle ==
    /\ loaded = IdleLoad /\ scored = IdleScore /\ alerts = <<>>
    /\ logged = IdleLog /\ calibration = IdleCalibration

\* data rows in the feature file
DataRows(f) == Len(DictReader(f))

Init ==
    /\ thresholds = ExampleThresholds
    /\ eo_csv = NoFile
    /\ sensor_csv = NoFile
    /\ events = NoFile
    /\ loaded = IdleLoad
    /\ scored = IdleScore
    /\ alerts = <<>>
    /\ logged = IdleLog
    /\ calibration = IdleCalibration

InitAggregate ==
    /\ thresholds = ExampleThresholds
    /\ eo_csv \in {NoFile, EmptyFile}
    /\ sensor_csv = NoFile
    /\ events = NoFile
    /\ loaded = IdleLoad
    /\ scored = IdleScore
    /\ alerts = <<>>
    /\ logged = IdleLog
    /\ calibration = IdleCalibration

InitMerge ==
    /\ thresholds = ExampleThresholds
    /\ eo_csv = NoFile
    /\ sensor_csv \in SensorFilesFound
    /\ events = NoFile
    /\ loaded = IdleLoad
    /\ scored = IdleScore
    /\ alerts = <<>>
    /\ logged = IdleLog
    /\ calibration = IdleCalibration

InitScore ==
    /\ thresholds \in ThresholdConfigs
    /\ eo_csv = NoFile
    /\ sensor_csv = NoFile
    /\ events = NoFile
    /\ loaded = IdleLoad
    /\ scored = IdleScore
    /\ alerts = <<>>
    /\ logged = IdleLog
    /\ calibration = IdleCalibration

InitCalls ==
    /\ thresholds \in CallConfigs
    /\ eo_csv = NoFile
    /\ sensor_csv \in SensorFilesFound
    /\ events = NoFile
    /\ loaded = IdleLoad
    /\ scored = IdleScore
    /\ alerts = <<>>
    /\ logged = IdleLog
    /\ calibration = IdleCalibration

InitStores ==
    /\ thresholds = ExampleThresholds
    /\ eo_csv \in {NoFile, EmptyFile}
    /\ sensor_csv \in {NoFile, EmptyFile}
    /\ events = NoFile
    /\ loaded = IdleLoad
    /\ scored = IdleScore
    /\ alerts = <<>>
    /\ logged = IdleLog
    /\ calibration = IdleCalibration

\* a producer appends one EO feature row
SaveEoFeatures ==
    /\ Idle
    /\ DataRows(eo_csv) + DataRows(sensor_csv) < MaxRows
    /\ \E data \in EOData, now \in NowInstants :
          eo_csv' = save_eo_features(data, eo_csv, now)
    /\ UNCHANGED <<thresholds, loaded, scored, alerts, sensor_csv, events, logged,
                 calibration>>

\* a producer appends one sensor reading
SaveSensorData ==
    /\ Idle
    /\ DataRows(eo_csv) + DataRows(sensor_csv) < MaxRows
    /\ \E data \in SensorData, now \in NowInstants :
          sensor_csv' = save_sensor_data(data, sensor_csv, now)
    /\ UNCHANGED <<thresholds, eo_csv, events, loaded, scored, alerts, logged,
                 calibration>>

\* a caller runs log_event on the two source files
LogEvent ==
    /\ Idle
    /\ LET run == log_event(sensor_csv, eo_csv, thresholds)
       IN  /\ events' = open_w(events, run.lines)
           /\ logged' = [called |-> TRUE, raised |-> run.raised,
                         previous |-> events, sensor_csv |-> sensor_csv,
                         eo_csv |-> eo_csv]
    /\ UNCHANGED <<thresholds, eo_csv, sensor_csv, loaded, scored, alerts,
                 calibration>>

\* the EO pipeline appends the features of one scene
DataComputation ==
    /\ Idle
    /\ DataRows(eo_csv) < MaxRows
    /\ \E features \in EOScenes : eo_csv' = to_csv(features, eo_csv)
    /\ UNCHANGED <<thresholds, loaded, scored, alerts, sensor_csv, events, logged,
                 calibration>>

\* a caller runs load_eo_features on the feature file
LoadEoFeatures ==
    /\ Idle
    /\ \E m \in MatchStamps, n \in NRecent, tol \in Tolerances :
          loaded' = [called |-> TRUE, match_timestamp |-> m, n_recent |-> n,
                     max_delta_seconds |-> tol,
                     chosen |-> Chosen(eo_csv, m, n, tol),
                     eo |-> load_eo_features(eo_csv, m, n, tol)]
    /\ UNCHANGED <<thresholds, eo_csv, scored, alerts, sensor_csv, events, logged,
                 calibration>>

\* a caller runs compute_flood_risk without eo_features
ScoreFromStore ==
    /\ Idle
    /\ \E s \in StoreSensors :
          scored' = [called |-> TRUE, sensor_data |-> s, eo_features |-> None,
                     sensor_data_after |-> sensor_data_after(s),
                     result |-> compute_flood_risk(s, None, thresholds, eo_csv)]
    /\ UNCHANGED <<thresholds, eo_csv, loaded, alerts, sensor_csv, events, logged,
                 calibration>>

\* a caller runs compute_flood_risk with eo_features of its own
ScoreSupplied ==
    /\ Idle
    /\ \E s \in SensorValues \cup PartialSensors, e \in EOValues \cup PartialEO :
          scored' = [called |-> TRUE, sensor_data |-> s, eo_features |-> <<e>>,
                     sensor_data_after |-> sensor_data_after(s),
                     result |-> compute_flood_risk(s, <<e>>, thresholds, eo_csv)]
    /\ UNCHANGED <<thresholds, eo_csv, loaded, alerts, sensor_csv, events, logged,
                 calibration>>

\* a caller runs compute_alert_level
AlertLevel ==
    /\ loaded = IdleLoad /\ scored = IdleScore /\ logged = IdleLog
    /\ calibration = IdleCalibration
    /\ Len(alerts) < MaxAlertCalls
    /\ \E r \in RiskValues :
          alerts' = Append(alerts, [flood_risk |-> r,
                                    level |-> compute_alert_level(r, thresholds)])
    /\ UNCHANGED <<thresholds, eo_csv, loaded, scored, sensor_csv, events, logged,
                 calibration>>

\* a caller runs calibrate_thresholds
Calibrate ==
    /\ Idle
    /\ \E given \in CalibrationInputs :
          LET run == calibrate_thresholds(given)
          IN  calibration' = [called |-> TRUE, given |-> given,
                              outcome |-> run.outcome,
                              thresholds |-> run.thresholds,
                              calibrated |-> run.calibrated]
    /\ UNCHANGED <<thresholds, eo_csv, sensor_csv, events, loaded, scored,
                   alerts, logged>>

\* the caller takes the result; the next call starts afresh
Return ==
    /\ ~Idle
    /\ loaded' = IdleLoad
    /\ scored' = IdleScore
    /\ alerts' = <<>>
    /\ logged' = IdleLog
    /\ calibration' = IdleCalibration
    /\ UNCHANGED <<thresholds, eo_csv, sensor_csv, events>>

Next == SaveEoFeatures \/ LoadEoFeatures \/ ScoreFromStore \/ Return

Spec == Init /\ [][Next]_vars

NextScore == ScoreSupplied \/ AlertLevel \/ Return

SpecScore == InitScore /\ [][NextScore]_vars

NextMerge == SaveSensorData \/ SaveEoFeatures \/ LogEvent \/ Return

SpecMerge == InitMerge /\ [][NextMerge]_vars

NextCalls == ScoreFromStore \/ AlertLevel \/ LogEvent \/ Calibrate \/ Return

SpecCalls == InitCalls /\ [][NextCalls]_vars

NextStores == SaveEoFeatures \/ SaveSensorData

SpecStores == InitStores /\ [][NextStores]_vars

NextAggregate == DataComputation \/ LoadEoFeatures \/ Return

SpecAggregate == InitAggregate /\ [][NextAggregate]_vars

----------------------------------------------------------------------------
(* Properties of the scorer and the classifier (SpecScore) *)

\* x is a number: neither None, nor a missing key, nor a malformed value
IsNumber(x) == x \notin {None, Missing, Malformed}

NonNegative(x) == x = None \/ (IsNumber(x) /\ x[1] >= 0)

\* the call of compute_flood_risk just made returned a result
ScoredOk == scored.called /\ scored.result.outcome = "ok"

\* the EO triple the caller passed to the call just made
SuppliedEO == scored.eo_features[1]

\* finite non-negative sensor and EO inputs, positive denominators
C1_Inputs ==
    /\ scored.called /\ scored.eo_features # None
    /\ IsNumber(scored.sensor_data.water_level)
    /\ IsNumber(scored.sensor_data.rainfall)
    /\ IsNumber(scored.sensor_data.humidity)
    /\ scored.sensor_data.water_level[1] >= 0
    /\ scored.sensor_data.rainfall[1] >= 0
    /\ scored.sensor_data.humidity[1] >= 0
    /\ NonNegative(SuppliedEO.soil_saturation)
    /\ NonNegative(SuppliedEO.flood_extent)
    /\ NonNegative(SuppliedEO.wetness_trend)
    /\ \A k \in {"water_level_m", "rainfall_mm", "flood_index"} :
          /\ thresholds[k] # Missing
          /\ thresholds[k] # None
          /\ thresholds[k][1] > 0

\* C1: for non-negative sensor and EO inputs and positive water_level_m,
\* rainfall_mm and flood_index, compute_flood_risk returns a flood_risk
\* with 0 <= flood_risk <= 1.
C1_RiskInUnitInterval ==
    C1_Inputs =>
        /\ scored.result.outcome = "ok"
        /\ RLeq(RInt(0), scored.result.flood_risk)
        /\ RLeq(scored.result.flood_risk, RInt(1))

\* every sub-score saturates and the final clamp is what keeps the risk at 1
C1_Witness ==
    /\ C1_Inputs
    /\ scored.sensor_data.water_level = RInt(100)
    /\ scored.sensor_data.humidity = RInt(130)
    /\ SuppliedEO.soil_saturation = Rat(3, 2)
    /\ scored.result.flood_risk = RInt(1)

\* the thresholds the classifier is documented to use
C2_Red == IF thresholds.alert_red = Missing THEN Rat(3, 4) ELSE thresholds.alert_red
C2_Yellow ==
    IF thresholds.alert_yellow = Missing THEN Rat(2, 5) ELSE thresholds.alert_yellow

\* C2: compute_alert_level returns RED exactly when risk >= alert_red, YELLOW
\* exactly when risk < alert_red and risk >= alert_yellow, GREEN otherwise;
\* each threshold is read on its own and 0.75 / 0.4 stand in only for an
\* absent key (a configured 0 is honoured).
C2_LevelByThresholds ==
    \A i \in 1..Len(alerts) :
        LET risk == alerts[i].flood_risk
            red == C2_Red[1] * risk[2] <= risk[1] * C2_Red[2]
            yellow == C2_Yellow[1] * risk[2] <= risk[1] * C2_Yellow[2]
        IN  /\ alerts[i].level \in {"RED", "YELLOW", "GREEN"}
            /\ alerts[i].level = "RED" <=> red
            /\ alerts[i].level = "YELLOW" <=> (~red /\ yellow)
            /\ alerts[i].level = "GREEN" <=> (~red /\ ~yellow)

\* a configured alert_red of 0 is honoured while alert_yellow is defaulted
C2_Witness ==
    /\ thresholds.alert_red = RInt(0)
    /\ thresholds.alert_yellow = Missing
    /\ Len(alerts) >= 1
    /\ alerts[1].flood_risk = Rat(1, 5)
    /\ alerts[1].level = "RED"

Severity(level) == CASE level = "GREEN" -> 0 [] level = "YELLOW" -> 1 [] level = "RED" -> 2

\* C3: for fixed thresholds and risks r1 <= r2 the level returned for r2 is
\* at least as severe as the one returned for r1 (GREEN < YELLOW < RED),
\* also when alert_yellow > alert_red.
C3_Monotonic ==
    \A i, j \in 1..Len(alerts) :
        RLeq(alerts[i].flood_risk, alerts[j].flood_risk) =>
            Severity(alerts[i].level) <= Severity(alerts[j].level)

\* alert_yellow above alert_red, one risk between the two and one above both
C3_Witness ==
    /\ thresholds.alert_red = Rat(1, 2)
    /\ thresholds.alert_yellow = Rat(9, 10)
    /\ Len(alerts) = 2
    /\ alerts[1].flood_risk = Rat(3, 5)
    /\ alerts[2].flood_risk = RInt(1)
    /\ alerts[1].level = "RED"

\* 10 * (0.4 a + 0.3 b + 0.3 c) as a fraction <<numerator, denominator>>
C4_Weighted(a, b, c) ==
    <<4 * a[1] * b[2] * c[2] + 3 * b[1] * a[2] * c[2] + 3 * c[1] * a[2] * b[2],
      a[2] * b[2] * c[2]>>

\* the trend score the specification tabulates
C4_Trend(trend) ==
    IF trend = RInt(1) THEN RInt(1)
    ELSE IF trend = RInt(0) THEN Rat(1, 2)
    ELSE RInt(0)

\* C4: flood_risk = min(0.5 sensor_index + 0.5 eo_index, 1) with
\* sensor_index = 0.4 rain + 0.3 humidity + 0.3 water and
\* eo_index = 0.4 soil + 0.3 flood + 0.3 trend, trend_score 1 / 0.5 / 0 for
\* trend 1 / 0 / -1, 0 for an absent or unrecognised trend, and an absent
\* soil_saturation or flood_extent contributing 0.
C4_Formula ==
    (ScoredOk /\ scored.eo_features # None) =>
        LET r == scored.result
            s == C4_Weighted(r.rainfall_score, r.humidity_score, r.water_level_score)
            e == C4_Weighted(r.soil_score, r.flood_score, C4_Trend(SuppliedEO.wetness_trend))
            \* 20 * (0.5 s/10 + 0.5 e/10) = s + e
            sum == <<s[1] * e[2] + e[1] * s[2], 20 * s[2] * e[2]>>
        IN  /\ SuppliedEO.soil_saturation = None => IsZero(r.soil_score)
            /\ SuppliedEO.flood_extent = None => IsZero(r.flood_score)
            /\ r.sensor_index[1] * 10 * s[2] = s[1] * r.sensor_index[2]
            /\ r.eo_index[1] * 10 * e[2] = e[1] * r.eo_index[2]
            /\ IF sum[1] <= sum[2]
               THEN r.flood_risk[1] * sum[2] = sum[1] * r.flood_risk[2]
               ELSE r.flood_risk = RInt(1)

\* an unrecognised trend and an absent soil_saturation, flood_extent present
C4_Witness ==
    /\ ScoredOk /\ scored.eo_features # None
    /\ SuppliedEO.wetness_trend = RInt(2)
    /\ SuppliedEO.soil_saturation = None
    /\ SuppliedEO.flood_extent = Rat(3, 10)
    /\ scored.sensor_data.rainfall = RInt(25)
    /\ scored.sensor_data.water_level = RInt(60)
    /\ scored.sensor_data.humidity = RInt(90)

\* x to four decimals, as an integer count of 1/10000
Round4(x) == PyRound(RMul(x, RInt(10000)))

\* the worked example was the call just made
C5_Example ==
    /\ thresholds = ExampleThresholds
    /\ ScoredOk /\ scored.eo_features # None
    /\ scored.sensor_data.water_level = RInt(60)
    /\ scored.sensor_data.rainfall = RInt(25)
    /\ scored.sensor_data.humidity = RInt(90)
    /\ SuppliedEO = [soil_saturation |-> Rat(4, 5), flood_extent |-> Rat(3, 10),
                     wetness_trend |-> RInt(1)]

\* C5 as stated: the worked example yields sensor_index 0.8082, eo_index 0.74,
\* flood_risk 0.7741 and alert level RED.
C5_AsStated ==
    C5_Example =>
        /\ Round4(scored.result.sensor_index) = 8082
        /\ Round4(scored.result.eo_index) = 7400
        /\ Round4(scored.result.flood_risk) = 7741
        /\ scored.result.alert_level = "RED"

\* C5 (amended): the worked example yields sensor_index 0.8283, eo_index 0.74,
\* flood_risk 0.7842 (to four decimals) and alert level RED.
C5_Example_Amended ==
    C5_Example =>
        /\ Round4(scored.result.sensor_index) = 8283
        /\ Round4(scored.result.eo_index) = 7400
        /\ Round4(scored.result.flood_risk) = 7842
        /\ scored.result.alert_level = "RED"

C5_Witness == C5_Example /\ scored.result.water_level_score = Rat(3, 4)

\* C7: the divisor of flood_extent is flood_index when that is set and
\* non-zero and 0.75 when it is unset or zero-like (missing, 0, None); no
\* division by zero occurs.
C7_DivisorDefault ==
    ScoredOk =>
        LET fi == thresholds.flood_index
        IN  /\ scored.result.flood_norm # None
            /\ ~IsZero(scored.result.flood_norm)
            /\ scored.result.flood_norm =
                  (IF fi = Missing THEN Rat(3, 4)
                   ELSE IF fi = None THEN Rat(3, 4)
                   ELSE IF IsZero(fi) THEN Rat(3, 4)
                   ELSE fi)

----------------------------------------------------------------------------
(* Properties of the temporal matcher and of scoring from the store (Spec) *)

\* C6: called without eo_features on a sensor reading with a parseable
\* timestamp, compute_flood_risk scores with the EO triple load_eo_features
\* selects for that timestamp (within tolerance, nearest otherwise); the
\* whole-file aggregate is used only without a usable timestamp.
C6_MatchedBySensorTimestamp ==
    (ScoredOk /\ scored.eo_features = None
        /\ _parse_iso(scored.sensor_data.timestamp) # None) =>
        scored.result.eo_features =
            load_eo_features(eo_csv, scored.sensor_data.timestamp, None, 60)

\* the rows of the store as the loader sees them, and the call's target
StoreRows == ParsedRows(eo_csv)
Target == _parse_iso(loaded.match_timestamp)

\* load_eo_features was called with a timestamp that parses
MatchedCall == loaded.called /\ Truthy(loaded.match_timestamp) /\ Target # None

Timed == {i \in 1..Len(StoreRows) : StoreRows[i].timestamp # None}
Delta(i) == Abs(StoreRows[i].timestamp[1] - Target[1])
Within == {i \in Timed : Delta(i) <= loaded.max_delta_seconds}

Elems(seq) == {seq[k] : k \in 1..Len(seq)}
NoRepeat(seq) == \A j, k \in 1..Len(seq) : j # k => seq[j] # seq[k]
Ascending(seq) == \A k \in 1..(Len(seq) - 1) : Delta(seq[k]) <= Delta(seq[k + 1])
Smaller(a, b) == IF a <= b THEN a ELSE b

\* no count limit, or a count limit of at least lo
LimitAtLeast(lo) == loaded.n_recent = None \/ loaded.n_recent[1] >= lo

\* C8 as stated: with a record within tolerance, only records within
\* tolerance are selected, by ascending delta; with a count limit N the
\* closest N of the records within tolerance.
C8_AsStated ==
    (MatchedCall /\ Within # {} /\ LimitAtLeast(0)) =>
        /\ Elems(loaded.chosen) \subseteq Within
        /\ NoRepeat(loaded.chosen)
        /\ Ascending(loaded.chosen)
        /\ Len(loaded.chosen) =
              (IF loaded.n_recent = None THEN Cardinality(Within)
               ELSE Smaller(loaded.n_recent[1], Cardinality(Within)))
        /\ \A i \in Within \ Elems(loaded.chosen), j \in Elems(loaded.chosen) :
              Delta(j) <= Delta(i)

\* C8 (amended): with a record within tolerance and no count limit, exactly
\* the records within tolerance are selected, by ascending delta; with a
\* count limit N >= 0 the N closest records that have a timestamp are
\* selected, by ascending delta, whether within tolerance or not.
C8_WithinOrNearestN ==
    (MatchedCall /\ Within # {} /\ LimitAtLeast(0)) =>
        /\ NoRepeat(loaded.chosen)
        /\ Ascending(loaded.chosen)
        /\ IF loaded.n_recent = None
           THEN Elems(loaded.chosen) = Within
           ELSE /\ Elems(loaded.chosen) \subseteq Timed
                /\ Len(loaded.chosen) = Smaller(loaded.n_recent[1], Cardinality(Timed))
                /\ \A i \in Timed \ Elems(loaded.chosen), j \in Elems(loaded.chosen) :
                      Delta(j) <= Delta(i)

\* a count limit of 2 brings in a record outside the tolerance window
C8_Witness ==
    /\ MatchedCall /\ Within # {}
    /\ loaded.n_recent = <<2>>
    /\ loaded.max_delta_seconds = 60
    /\ Len(loaded.chosen) = 2
    /\ loaded.chosen[1] \in Within
    /\ loaded.chosen[2] \notin Within

\* C9 as stated: with a parseable target and a record with a parseable
\* timestamp the selection is never empty, for every tolerance and every
\* count limit; with no record within tolerance the nearest is selected.
C9_AsStated ==
    (MatchedCall /\ Timed # {} /\ LimitAtLeast(0)) =>
        /\ loaded.chosen # <<>>
        /\ Within = {} => \A i \in Timed : Delta(loaded.chosen[1]) <= Delta(i)

\* C9 (amended): the same for every tolerance and every count limit that is
\* absent or at least 1.
C9_NeverEmpty ==
    (MatchedCall /\ Timed # {} /\ LimitAtLeast(1)) =>
        /\ loaded.chosen # <<>>
        /\ Within = {} =>
              /\ loaded.chosen[1] \in Timed
              /\ \A i \in Timed : Delta(loaded.chosen[1]) <= Delta(i)
              /\ \A fld \in {"soil_saturation", "flood_extent", "wetness_trend"} :
                    StoreRows[loaded.chosen[1]][fld] # None => loaded.eo[fld] # None

\* nothing within tolerance, no count limit: the rows come back by proximity
C9_Witness ==
    /\ MatchedCall /\ Timed # {} /\ Within = {}
    /\ loaded.n_recent = None
    /\ Len(loaded.chosen) >= 2
    /\ Delta(loaded.chosen[1]) > 60
    /\ loaded.eo.soil_saturation # None

\* the records whose timestamp denotes the target instant
Exact == {i \in Timed : StoreRows[i].timestamp = Target}

\* C10 as stated: a target denoting the instant of one stored record puts
\* that record (delta 0) first in the selection, for every tolerance >= 0
\* and every count limit.
C10_AsStated ==
    (MatchedCall /\ Cardinality(Exact) = 1 /\ loaded.max_delta_seconds >= 0
        /\ LimitAtLeast(0)) =>
        /\ loaded.chosen # <<>>
        /\ loaded.chosen[1] \in Exact

\* C10 (amended): the same for every tolerance >= 0 and every count limit
\* that is absent or at least 1.
C10_ExactFirst ==
    (MatchedCall /\ Cardinality(Exact) = 1 /\ loaded.max_delta_seconds >= 0
        /\ LimitAtLeast(1)) =>
        /\ loaded.chosen # <<>>
        /\ loaded.chosen[1] \in Exact
        /\ Delta(loaded.chosen[1]) = 0

\* the matching record is stored behind an earlier one and still comes first
C10_Witness ==
    /\ MatchedCall /\ Cardinality(Exact) = 1
    /\ loaded.match_timestamp.form = "offset"
    /\ loaded.n_recent = <<2>>
    /\ Len(loaded.chosen) = 2
    /\ loaded.chosen[1] \in Exact
    /\ loaded.chosen[1] > loaded.chosen[2]

----------------------------------------------------------------------------
(* Properties of the selection without a usable target (Spec) *)

\* load_eo_features was called without a target timestamp
UntargetedCall == loaded.called /\ ~Truthy(loaded.match_timestamp)

\* the last m positions of the store, in store order
LastPositions(m) == [k \in 1..m |-> Len(StoreRows) - m + k]

\* C11: without a target timestamp the selection is every stored record
\* when n_recent is None, and the last min(N, size) records in store order
\* when n_recent is an integer N >= 0.
C11_LastN ==
    (UntargetedCall /\ LimitAtLeast(0)) =>
        loaded.chosen =
            (IF loaded.n_recent = None THEN LastPositions(Len(StoreRows))
             ELSE LastPositions(Smaller(loaded.n_recent[1], Len(StoreRows))))

\* the target was supplied and is of no use: it does not parse, or no
\* stored record has a timestamp that parses
UselessTarget ==
    /\ loaded.called /\ Truthy(loaded.match_timestamp)
    /\ (Target = None \/ Timed = {})

\* C12: with a target that does not parse, or with no stored record whose
\* timestamp parses, the selection and the aggregate are those of the same
\* call made without a target and with the same n_recent.
C12_FallsBackToNoTarget ==
    UselessTarget =>
        /\ loaded.chosen =
              Chosen(eo_csv, NoTimestamp, loaded.n_recent, loaded.max_delta_seconds)
        /\ loaded.eo =
              load_eo_features(eo_csv, NoTimestamp, loaded.n_recent,
                               loaded.max_delta_seconds)

\* an unparseable target against records that do have timestamps: the count
\* limit alone decides, and the last record is taken
C12_Witness ==
    /\ UselessTarget
    /\ Target = None
    /\ Cardinality(Timed) = 3
    /\ loaded.n_recent = <<1>>
    /\ loaded.chosen = <<3>>
    /\ loaded.eo.soil_saturation = StoreRows[3].soil_saturation

----------------------------------------------------------------------------
(* Properties of the aggregate (SpecAggregate) *)

EOFields == {"soil_saturation", "flood_extent", "wetness_trend"}

\* C13: when exactly one record is selected the aggregate has that record's
\* soil_saturation, flood_extent and wetness_trend, an absent field staying
\* absent.
C13_SingleRecordIdentity ==
    (loaded.called /\ Len(loaded.chosen) = 1) =>
        \A fld \in EOFields : loaded.eo[fld] = StoreRows[loaded.chosen[1]][fld]

\* one of several records is selected; it has no soil_saturation
C13_Witness ==
    /\ loaded.called /\ Len(loaded.chosen) = 1
    /\ Len(StoreRows) = 3
    /\ StoreRows[loaded.chosen[1]].soil_saturation = None
    /\ StoreRows[loaded.chosen[1]].flood_extent = Rat(1, 5)
    /\ loaded.eo.soil_saturation = None
    /\ loaded.eo.flood_extent = Rat(1, 5)

\* C14: when nothing is selected (no file, a file without records, or an
\* empty selection) load_eo_features returns soil_saturation, flood_extent
\* and wetness_trend all absent.
C14_EmptyGivesAbsent ==
    (loaded.called /\ loaded.chosen = <<>>) =>
        \A fld \in EOFields : loaded.eo[fld] = None

\* a file that exists and holds no record
C14_Witness ==
    /\ loaded.called /\ loaded.chosen = <<>>
    /\ eo_csv = EmptyFile
    /\ loaded.eo.soil_saturation = None
    /\ loaded.eo.flood_extent = None
    /\ loaded.eo.wetness_trend = None

\* the places in the selection whose record has the field
Having(fld) ==
    {k \in 1..Len(loaded.chosen) : StoreRows[loaded.chosen[k]][fld] # None}

\* the sum of the field over the first k selected records that have it
RECURSIVE Total(_, _)
Total(fld, k) ==
    IF k = 0 THEN RInt(0)
    ELSE IF k \in Having(fld)
         THEN RAdd(StoreRows[loaded.chosen[k]][fld], Total(fld, k - 1))
         ELSE Total(fld, k - 1)

\* C15: for a non-empty selection soil_saturation (resp. flood_extent) is
\* the arithmetic mean over the selected records that have the field, and
\* is absent iff none has it; each field on its own.
C15_MeanOfPresent ==
    (loaded.called /\ loaded.chosen # <<>>) =>
        \A fld \in {"soil_saturation", "flood_extent"} :
            IF Having(fld) = {} THEN loaded.eo[fld] = None
            ELSE /\ loaded.eo[fld] # None
                 /\ RMul(loaded.eo[fld], RInt(Cardinality(Having(fld)))) =
                       Total(fld, Len(loaded.chosen))

\* three records selected: two have soil_saturation, another one alone has
\* flood_extent
C15_Witness ==
    /\ loaded.called /\ Len(loaded.chosen) = 3
    /\ Cardinality(Having("soil_saturation")) = 2
    /\ Cardinality(Having("flood_extent")) = 1
    /\ Having("flood_extent") \ Having("soil_saturation") # {}
    /\ loaded.eo.soil_saturation = Rat(1, 2)
    /\ loaded.eo.flood_extent = Rat(1, 5)

----------------------------------------------------------------------------
(* Properties of the merged events file (SpecMerge) *)

\* log_event has just run and no scoring call raised
Merged == logged.called /\ ~logged.raised

\* the data rows of the events file
EventRows == Tail(events.lines)

\* the two collections as log_event reads them, and their join keys
SensorRowsRead == _read_rows(sensor_csv)
EORowsRead == _read_rows(eo_csv)
KeySet(rows) == {rows[i].iso_ts : i \in 1..Len(rows)}
SensorKeys == KeySet(SensorRowsRead)
EOKeys == KeySet(EORowsRead)

\* C16: the events file has exactly one row for each join key of the sensor
\* collection or the EO collection and no other row; a key of the sensor
\* collection alone has blank soil_saturation, flood_extent and
\* wetness_trend, a key of the EO collection alone has blank water_level,
\* rainfall and humidity.
C16_OuterJoin ==
    Merged =>
        /\ {EventRows[i].timestamp : i \in 1..Len(EventRows)} =
              SensorKeys \cup EOKeys
        /\ \A i, j \in 1..Len(EventRows) :
              i # j => EventRows[i].timestamp # EventRows[j].timestamp
        /\ \A i \in 1..Len(EventRows) :
              /\ EventRows[i].timestamp \notin EOKeys =>
                    /\ EventRows[i].soil_saturation = None
                    /\ EventRows[i].flood_extent = None
                    /\ EventRows[i].wetness_trend = None
              /\ EventRows[i].timestamp \notin SensorKeys =>
                    /\ EventRows[i].water_level = None
                    /\ EventRows[i].rainfall = None
                    /\ EventRows[i].humidity = None

\* two EO rows of one key and a sensor row of another: two output rows, one
\* with the EO cells blank and one with the sensor cells blank
C16_Witness ==
    /\ Merged
    /\ Len(EORowsRead) = 2 /\ Cardinality(EOKeys) = 1
    /\ Len(SensorRowsRead) = 1
    /\ Len(EventRows) = 2
    /\ EventRows[1].timestamp \in EOKeys \ SensorKeys
    /\ EventRows[1].water_level = None
    /\ EventRows[1].soil_saturation # None
    /\ EventRows[2].timestamp \in SensorKeys \ EOKeys
    /\ EventRows[2].water_level # None
    /\ EventRows[2].soil_saturation = None

\* the instant of an output row's timestamp, None if it does not parse
EventInstant(i) == _parse_iso(EventRows[i].timestamp)

\* rows with a timestamp that parses come first, by ascending instant
ParsedFirst ==
    \A i, j \in 1..Len(EventRows) :
        i < j =>
            /\ EventInstant(i) = None => EventInstant(j) = None
            /\ (EventInstant(i) # None /\ EventInstant(j) # None) =>
                  EventInstant(i)[1] < EventInstant(j)[1]

\* the keys in the order the inputs present them: the sensor rows, then the
\* EO rows
Encountered ==
    [i \in 1..Len(SensorRowsRead) |-> SensorRowsRead[i].iso_ts]
    \o [i \in 1..Len(EORowsRead) |-> EORowsRead[i].iso_ts]

\* where key k is first encountered
FirstSeen(k) ==
    CHOOSE i \in 1..Len(Encountered) :
        /\ Encountered[i] = k
        /\ \A j \in 1..(i - 1) : Encountered[j] # k

\* C17 as stated: rows whose timestamp parses come first by ascending
\* instant; the rows whose timestamp does not parse follow in the order in
\* which they were first encountered in the inputs.
C17_AsStated ==
    Merged =>
        /\ ParsedFirst
        /\ \A i, j \in 1..Len(EventRows) :
              (i < j /\ EventInstant(i) = None) =>
                  FirstSeen(EventRows[i].timestamp) < FirstSeen(EventRows[j].timestamp)

\* C17 (amended): rows whose timestamp parses come first by ascending
\* instant; the rows whose timestamp does not parse follow in ascending
\* order of the raw timestamp string.
C17_ParsedThenByString ==
    Merged =>
        /\ ParsedFirst
        /\ \A i, j \in 1..Len(EventRows) :
              (i < j /\ EventInstant(i) = None) =>
                  RawRank(EventRows[i].timestamp) < RawRank(EventRows[j].timestamp)

\* a parsed row, then two rows that do not parse, in string order and
\* against the order of the input
C17_Witness ==
    /\ Merged
    /\ Len(EventRows) = 3
    /\ EventInstant(1) # None
    /\ EventInstant(2) = None /\ EventInstant(3) = None
    /\ RawRank(EventRows[2].timestamp) < RawRank(EventRows[3].timestamp)
    /\ FirstSeen(EventRows[2].timestamp) > FirstSeen(EventRows[3].timestamp)

\* the sensor collection has a row of key k with a sensor field present
SensorFieldsPresent(k) ==
    \E i \in 1..Len(SensorRowsRead) :
        /\ SensorRowsRead[i].iso_ts = k
        /\ \/ SensorRowsRead[i].raw.water_level # None
           \/ SensorRowsRead[i].raw.rainfall # None
           \/ SensorRowsRead[i].raw.humidity # None

\* C18: an output row has a risk and a warning_level iff the sensor
\* collection has a row of that key with a sensor field present; a key of the
\* EO collection alone has neither, and a reading none of whose fields is
\* present gives no risk.
C18_RiskOnlyFromPresentFields ==
    Merged =>
        \A i \in 1..Len(EventRows) :
            /\ (EventRows[i].risk # None /\ EventRows[i].warning_level # "")
                  <=> SensorFieldsPresent(EventRows[i].timestamp)
            /\ EventRows[i].timestamp \notin SensorKeys =>
                  (EventRows[i].risk = None /\ EventRows[i].warning_level = "")

\* the sensor line and the EO line of key k (used where each key has one)
SensorLineOf(k) ==
    DictReader(sensor_csv)[CHOOSE i \in 1..Len(SensorRowsRead) :
                              SensorRowsRead[i].iso_ts = k]
EOLineOf(k) ==
    DictReader(eo_csv)[CHOOSE i \in 1..Len(EORowsRead) : EORowsRead[i].iso_ts = k]

\* compute_flood_risk called directly on the sensor reading and the EO
\* record of key k, with the same thresholds
DirectScore(k) ==
    compute_flood_risk(
        [timestamp |-> SensorLineOf(k).timestamp,
         water_level |-> SensorLineOf(k).water_level,
         rainfall |-> SensorLineOf(k).rainfall,
         humidity |-> SensorLineOf(k).humidity],
        <<[soil_saturation |-> EOLineOf(k).soil_saturation,
           flood_extent |-> EOLineOf(k).flood_extent,
           wetness_trend |-> EOLineOf(k).wetness_trend]>>,
        thresholds, eo_csv)

\* identical timestamp sets, one row per timestamp, every field present
C19_Inputs ==
    /\ Merged
    /\ SensorKeys = EOKeys /\ SensorKeys # {}
    /\ Len(SensorRowsRead) = Cardinality(SensorKeys)
    /\ Len(EORowsRead) = Cardinality(EOKeys)
    /\ \A i \in 1..Len(SensorRowsRead) :
          /\ SensorRowsRead[i].raw.water_level # None
          /\ SensorRowsRead[i].raw.rainfall # None
          /\ SensorRowsRead[i].raw.humidity # None
    /\ \A i \in 1..Len(EORowsRead) :
          /\ EORowsRead[i].raw.soil_saturation # None
          /\ EORowsRead[i].raw.flood_extent # None
          /\ EORowsRead[i].raw.wetness_trend # None

C20_FullRewrite ==
    logged.called =>
        /\ events.exists
        /\ events.lines = log_event(sensor_csv, eo_csv, thresholds).lines
        /\ Merged =>
              /\ events.lines[1] = EventsHeaderLine
              /\ Len(EventRows) = Cardinality(SensorKeys \cup EOKeys)
              /\ \A i \in 1..Len(EventRows) : EventRows[i].kind = "row"
        /\ logged.previous.lines = log_event(sensor_csv, eo_csv, thresholds).lines
              => events = logged.previous
        /\ sensor_csv = logged.sensor_csv
        /\ eo_csv = logged.eo_csv

\* the destination held one row from an earlier run; both sources have grown
\* since, and the row of that key is written anew with its EO cells filled
C20_Witness ==
    /\ logged.called
    /\ logged.previous.exists
    /\ Len(logged.previous.lines) = 2
    /\ Len(events.lines) = 3
    /\ logged.previous.lines[2].timestamp = events.lines[2].timestamp
    /\ logged.previous.lines[2].soil_saturation = None
    /\ events.lines[2].soil_saturation # None
    /\ events.lines[3].water_level # None

----------------------------------------------------------------------------
(* Properties of calls under a configuration (SpecCalls) *)

\* the configuration lacks one of the two sensor normalisation limits
LacksLimit ==
    thresholds["water_level_m"] = Missing \/ thresholds["rainfall_mm"] = Missing

\* C21: when the thresholds lack water_level_m or rainfall_mm, a call of
\* compute_flood_risk ends with a KeyError and returns no risk and no alert
\* level; a call of log_event that scores a sensor row ends with the error
\* too, and no row of the events file carries a risk or a warning level.
C21_MissingLimitIsFatal ==
    /\ (scored.called /\ LacksLimit) =>
          /\ scored.result.outcome = "KeyError"
          /\ scored.result.flood_risk = None
          /\ scored.result.alert_level = ""
    /\ (logged.called /\ LacksLimit /\ SensorKeys # {}) =>
          /\ logged.raised
          /\ \A i \in 1..Len(EventRows) :
                EventRows[i].risk = None /\ EventRows[i].warning_level = ""

\* a run of log_event ended with the error, leaving an events file with no
\* data row behind, and then compute_flood_risk ended with the error too
C21_Witness ==
    /\ thresholds["rainfall_mm"] = Missing
    /\ thresholds["water_level_m"] # Missing
    /\ sensor_csv = BlankReading
    /\ events.exists /\ events.lines = <<EventsHeaderLine>>
    /\ scored.called
    /\ scored.result.outcome = "KeyError"

----------------------------------------------------------------------------
(* Properties of the scorer on partial data (SpecScore) *)

\* water_level_m and rainfall_mm are configured as positive numbers
ValidLimits ==
    \A k \in {"water_level_m", "rainfall_mm"} :
        IsNumber(thresholds[k]) /\ thresholds[k][1] > 0

\* every field of the sensor reading of the call just made is a number
SensorComplete ==
    /\ IsNumber(scored.sensor_data.water_level)
    /\ IsNumber(scored.sensor_data.rainfall)
    /\ IsNumber(scored.sensor_data.humidity)

\* an EO field that is absent or not a number contributes a score of 0
AbsentEOScoresZero ==
    /\ ~IsNumber(SuppliedEO.soil_saturation) =>
          scored.result.soil_score = RInt(0)
    /\ ~IsNumber(SuppliedEO.flood_extent) =>
          scored.result.flood_score = RInt(0)
    /\ ~IsNumber(SuppliedEO.wetness_trend) =>
          scored.result.trend_score = RInt(0)

\* C22 as stated: with valid thresholds compute_flood_risk returns a result
\* whatever fields of the sensor reading and of the EO triple are absent or
\* not numbers, and each such field contributes 0.
C22_AsStated ==
    (scored.called /\ scored.eo_features # None /\ ValidLimits) =>
        /\ scored.result.outcome = "ok"
        /\ AbsentEOScoresZero
        /\ ~IsNumber(scored.sensor_data.water_level) =>
              scored.result.water_level_score = RInt(0)
        /\ ~IsNumber(scored.sensor_data.rainfall) =>
              scored.result.rainfall_score = RInt(0)
        /\ ~IsNumber(scored.sensor_data.humidity) =>
              scored.result.humidity_score = RInt(0)

\* C22 (amended): with valid thresholds and a sensor reading whose three
\* fields are numbers, compute_flood_risk returns a result whatever fields of
\* the EO triple are absent or not numbers, each such field contributing 0;
\* with a sensor field that is absent or not a number it raises KeyError or
\* TypeError and returns nothing.
C22_ToleratesPartialEO ==
    (scored.called /\ scored.eo_features # None /\ ValidLimits) =>
        IF SensorComplete
        THEN scored.result.outcome = "ok" /\ AbsentEOScoresZero
        ELSE /\ scored.result.outcome \in {"KeyError", "TypeError"}
             /\ scored.result.flood_risk = None

\* a complete reading scored with an EO triple none of whose fields is a
\* number: the EO index is 0 and the risk is half the sensor index
C22_Witness ==
    /\ scored.called /\ ValidLimits /\ SensorComplete
    /\ scored.eo_features # None
    /\ SuppliedEO.soil_saturation = Malformed
    /\ SuppliedEO.flood_extent = None
    /\ SuppliedEO.wetness_trend = Malformed
    /\ scored.result.outcome = "ok"
    /\ scored.result.eo_index = RInt(0)
    /\ scored.result.flood_risk = RMul(Rat(1, 2), scored.result.sensor_index)
    /\ scored.result.flood_risk[1] > 0

InUnitInterval(x) == RLeq(RInt(0), x) /\ RLeq(x, RInt(1))

\* C24: for a sensor reading whose three fields are numbers, negative ones
\* included, and positive water_level_m and rainfall_mm, each of the three
\* sensor sub-scores of compute_flood_risk lies in [0, 1].
C24_SubScoresInUnitInterval ==
    (scored.called /\ ValidLimits /\ SensorComplete) =>
        /\ scored.result.outcome = "ok"
        /\ InUnitInterval(scored.result.water_level_score)
        /\ InUnitInterval(scored.result.rainfall_score)
        /\ InUnitInterval(scored.result.humidity_score)

----------------------------------------------------------------------------
(* Properties of the aggregated trend (SpecAggregate) *)

\* C25: the wetness_trend returned by load_eo_features is absent exactly
\* when no selected record has a trend; otherwise it is -1, 0 or 1, an
\* integer nearest to the mean of the selected trend codes, and a mean of
\* exactly +0.5 or -0.5 is rounded by the same rule for both signs: to the
\* even neighbour, 0.
C25_TrendRounded ==
    loaded.called =>
        IF Having("wetness_trend") = {} THEN loaded.eo.wetness_trend = None
        ELSE LET n == Cardinality(Having("wetness_trend"))
                 sum == Total("wetness_trend", Len(loaded.chosen))
                 r == loaded.eo.wetness_trend
             IN  /\ r \in {RInt(-1), RInt(0), RInt(1)}
                 /\ sum[2] = 1
                 /\ 2 * (n * r[1] - sum[1]) <= n
                 /\ 2 * (sum[1] - n * r[1]) <= n
                 /\ (2 * sum[1] = n \/ 2 * sum[1] = -n) => r = RInt(0)

\* two records with trends -1 and 0 are selected: the mean is -0.5 and the
\* aggregate is 0
C25_Witness ==
    /\ loaded.called /\ Len(loaded.chosen) = 2
    /\ Cardinality(Having("wetness_trend")) = 2
    /\ Total("wetness_trend", 2) = RInt(-1)
    /\ loaded.eo.wetness_trend = RInt(0)

----------------------------------------------------------------------------
(* Frame properties (SpecCalls) *)

\* the mapping returned by the calibrate_thresholds call just made
Calibrated == calibration.calibrated[1]

\* C23: no call of compute_flood_risk, compute_alert_level or log_event
\* changes the thresholds; after compute_flood_risk the caller's reading is
\* what it was, the normalised timestamp being in the returned sensor_record
\* only; calibrate_thresholds leaves the mapping it was given as it was and
\* returns another one, equal to it but for calibrated_water_level.
C23_InputsUnchanged ==
    /\ [][thresholds' = thresholds]_vars
    /\ [](scored.called => scored.sensor_data_after = scored.sensor_data)
    /\ [](calibration.called =>
            /\ calibration.thresholds = calibration.given
            /\ calibration.outcome = "ok" =>
                  /\ Calibrated.base_water_level = calibration.given.base_water_level
                  /\ Calibrated.flood_risk_factor = calibration.given.flood_risk_factor
                  /\ Calibrated.calibrated_water_level =
                        RMul(calibration.given.base_water_level,
                             calibration.given.flood_risk_factor))

\* compute_flood_risk returned a sensor_record whose timestamp is the
\* normalised one, and the caller's reading still has the timestamp it had
C23_Witness ==
    /\ scored.called /\ scored.result.outcome = "ok"
    /\ scored.sensor_data.timestamp = TS("naive", 0, 0)
    /\ scored.result.sensor_record.timestamp # scored.sensor_data.timestamp
    /\ scored.sensor_data_after.timestamp = TS("naive", 0, 0)

----------------------------------------------------------------------------
(* Properties of the join in log_event (SpecMerge) *)

\* the reading of key k scored with no EO data at all
ScoredWithoutEO(k) ==
    compute_flood_risk(
        ZeroFilled(sensor_data_of(k, RowMap(SensorRowsRead)[k].raw)),
        <<NoEO>>, thresholds, NoFile)

\* C26: in the output of log_event the risk of a key that only the sensor
\* collection has is 0.5 * sensor_index of its reading, whatever the EO
\* store holds: no EO data is loaded for it.
C26_SensorOnlyKeyUsesNoEO ==
    Merged =>
        \A i \in 1..Len(EventRows) :
            EventRows[i].timestamp \in SensorKeys \ EOKeys =>
                /\ EventRows[i].risk =
                      RMul(Rat(1, 2),
                           ScoredWithoutEO(EventRows[i].timestamp).sensor_index)
                /\ EventRows[i].warning_level =
                      ScoredWithoutEO(EventRows[i].timestamp).alert_level

\* the timestamps written in the data lines of the two source files
SensorStamps == {DictReader(sensor_csv)[i].timestamp : i \in 1..DataRows(sensor_csv)}
EOStamps == {DictReader(eo_csv)[i].timestamp : i \in 1..DataRows(eo_csv)}

\* two timestamp strings are the same moment: both parse and denote one UTC
\* instant, or neither parses and they are the same text
SameStamp(a, b) ==
    IF _parse_iso(a) # None /\ _parse_iso(b) # None
    THEN _parse_iso(a) = _parse_iso(b)
    ELSE _parse_iso(a) = None /\ _parse_iso(b) = None /\ a = b

\* the same, the text of a string that does not parse being compared
\* without the blanks around it
SameStampStripped(a, b) ==
    IF _parse_iso(a) # None /\ _parse_iso(b) # None
    THEN _parse_iso(a) = _parse_iso(b)
    ELSE _parse_iso(a) = None /\ _parse_iso(b) = None /\ strip(a) = strip(b)

\* the key under which a timestamp string is expected in the output: the
\* UTC rendering of its instant, or the stripped string if it does not parse
ExpectedKey(a) ==
    IF _parse_iso(a) # None THEN isoformat(_parse_iso(a)) ELSE strip(a)

\* one output row stands for both timestamp strings
InOneRow(a, b) ==
    \E i \in 1..Len(EventRows) :
        EventRows[i].timestamp = ExpectedKey(a) /\ EventRows[i].timestamp = ExpectedKey(b)

\* C27 as stated: a sensor row and an EO row are joined into one output row
\* exactly when their timestamps denote one UTC instant, whatever their
\* form, or neither parses and the two raw strings are identical.
C27_AsStated ==
    Merged =>
        \A a \in SensorStamps, b \in EOStamps : InOneRow(a, b) <=> SameStamp(a, b)

\* C27 (amended): a sensor row and an EO row are joined into one output row
\* exactly when their timestamps denote one UTC instant, whatever their form
\* (trailing Z, +00:00, another offset, no offset), or neither parses and
\* the two strings are identical once the blanks around them are stripped;
\* strings of different instants never join.
C27_JoinOnNormalisedKey ==
    Merged =>
        /\ \A a \in SensorStamps, b \in EOStamps :
              InOneRow(a, b) <=> SameStampStripped(a, b)
        /\ \A a \in SensorStamps \cup EOStamps : InOneRow(a, a)

\* a sensor row stamped with offset +02:00 and an EO row stamped without
\* offset denote the same instant and share a row; the EO row stamped 170
\* seconds earlier has a row of its own
C27_Witness ==
    /\ Merged
    /\ TS("offset", 7400, 7200) \in SensorStamps
    /\ EOStamps = {TS("naive", 200, 0), TS("offset", 3630, 3600)}
    /\ Len(EventRows) = 2
    /\ EventRows[2].water_level # None /\ EventRows[2].soil_saturation # None
    /\ EventRows[1].water_level = None /\ EventRows[1].soil_saturation # None

----------------------------------------------------------------------------
(* Properties of the two stores (SpecStores) *)

\* the file is empty or missing, or is the header h followed by data rows only
OneHeader(f, h) ==
    \/ f.lines = <<>>
    \/ /\ Len(f.lines) >= 2
       /\ f.lines[1] = h
       /\ \A i \in 2..Len(f.lines) : f.lines[i].kind = "row"

\* g is f, or f with one data row more at its end and nothing else changed
AppendedTo(f, g) ==
    \/ g = f
    \/ /\ g.exists
       /\ DataRows(g) = DataRows(f) + 1
       /\ \A i \in 1..DataRows(f) : DictReader(g)[i] = DictReader(f)[i]
       /\ g.lines[Len(g.lines)].kind = "row"

\* C28: starting from a missing or an empty file, each store is at any time
\* one header line followed by data rows, and every call of save_eo_features
\* or save_sensor_data adds exactly one row at the end and leaves the rows
\* before it as they were; so after n calls there are n rows in call order.
C28_AppendOnly ==
    /\ [](OneHeader(eo_csv, HeaderLine) /\ OneHeader(sensor_csv, SensorHeaderLine))
    /\ [][AppendedTo(eo_csv, eo_csv') /\ AppendedTo(sensor_csv, sensor_csv')]_vars

\* two feature rows written in the order of the calls, the later instant
\* first, and one sensor row: each file has its header once
C28_Witness ==
    /\ Len(eo_csv.lines) = 3 /\ Len(sensor_csv.lines) = 2
    /\ eo_csv.lines[1] = HeaderLine /\ sensor_csv.lines[1] = SensorHeaderLine
    /\ eo_csv.lines[2].timestamp = TS("naive", 200, 0)
    /\ eo_csv.lines[3].timestamp = TS("naive", 0, 0)
    /\ sensor_csv.lines[2].kind = "row"

====
